---- MODULE Spec2Model ----
(***************************************************************************)
(* Model of the data-product catalog service (app/data_product_service.py) *)
(* on top of the data_products table declared in app/models.py.            *)
(*                                                                         *)
(* Spec      : the service functions called one after the other; each      *)
(*             action is one whole call.                                   *)
(* ConcSpec  : two callers whose calls interleave at the database          *)
(*             statements (lookup, load, commit) each call issues.         *)
(***************************************************************************)
EXTENDS Integers, FiniteSets, Sequences, TLC

(***************************************************************************)
(* Bounds of the model.                                                    *)
(***************************************************************************)
\* the primary keys of the runs: 1..MaxId
MaxId == 2
\* the clock (datetime.utcnow) reads 0..MaxTime
MaxTime == 1

\* records the query runs start from: at most MaxRows, with creation dates
\* in 0..MaxDate
MaxRows == 3
MaxDate == 1

\* the seeding runs: the clock advances by at most SeedTicks, the table
\* assigns keys within 1..MaxSeedId and at most MaxSeedCreated records are
\* created
SeedTicks == 1
MaxSeedId == 7
MaxSeedCreated == 12

\* the one caller creates at most MaxCreated records
MaxCreated == 2

\* the two callers make at most MaxCalls calls
MaxCalls == 5

(***************************************************************************)
(* Values.  Python's None is NoneStr for a string, NoDate for a datetime   *)
(* and NoId for an id.                                                     *)
(***************************************************************************)
NoneStr == "<None>"
NoDate == -1
NoId == 0

Ids == 1..MaxId
Times == 0..MaxTime
\* schema names: the empty string and two names that differ only in case
SchemaNames == {"", "a", "A"}
Descriptions == {"d"}

\* the schema names and the search terms of the query runs
QueryNames == {"a", "A", "ab", "Ba"}
SearchTerms == {"", " ", "a", "A", "B", "AB", "ba", "bb"}

\* a Python str as the sequence of its characters
Chars(str) ==
    CASE str = "" -> <<>>
      [] str = " " -> <<" ">>
      [] str = "a" -> <<"a">>
      [] str = "A" -> <<"A">>
      [] str = "B" -> <<"B">>
      [] str = "ab" -> <<"a", "b">>
      [] str = "AB" -> <<"A", "B">>
      [] str = "Ba" -> <<"B", "a">>
      [] str = "ba" -> <<"b", "a">>
      [] str = "bb" -> <<"b", "b">>

FieldNames == {"schema_name", "description", "owner", "creation_date"}

\* DataProductCreate: schema_name and owner are required strings,
\* description and creation_date default to None.
DataProductCreate ==
    { r \in [schema_name : SchemaNames,
             description : Descriptions \cup {NoneStr},
             owner : {"o"},
             creation_date : {NoDate, 0},
             fields_set : {FieldNames}] : TRUE }

\* DataProductUpdate: every field is optional and defaults to None;
\* fields_set holds the fields the caller supplied (a supplied field may
\* be None).
DataProductUpdate ==
    { r \in [schema_name : SchemaNames \cup {NoneStr},
             description : Descriptions \cup {NoneStr},
             owner : {"p", NoneStr},
             creation_date : {NoDate, 0},
             fields_set : SUBSET FieldNames] :
        /\ "schema_name" \notin r.fields_set => r.schema_name = NoneStr
        /\ "description" \notin r.fields_set => r.description = NoneStr
        /\ "owner" \notin r.fields_set => r.owner = NoneStr
        /\ "creation_date" \notin r.fields_set => r.creation_date = NoDate }

NoRequest ==
    [schema_name |-> NoneStr, description |-> NoneStr, owner |-> NoneStr,
     creation_date |-> NoDate, fields_set |-> {}]

\* no row: what a lookup that finds nothing returns
NoRow ==
    [id |-> NoId, schema_name |-> NoneStr, description |-> NoneStr,
     owner |-> NoneStr, creation_date |-> NoDate, created_at |-> NoDate,
     updated_at |-> NoDate]

VARIABLES
    store,   \* the data_products table: id -> row, for the ids in use
    now,     \* the latest reading of the clock
    last,    \* the latest call: its operation, its id (the one returned by
             \* a create, the one passed to an update or delete), its
             \* outcome, and who held the schema_name of its request
    proc,    \* the call each concurrent caller is in: the statement it is
             \* at (pc), its request, the row it loaded or constructed, its
             \* reading of the clock (stamp), its outcome, the callers it
             \* raced with (rivals) and whether the row it loaded has been
             \* deleted since (gone)
    tally,   \* how many create calls and how many delete calls of the one
             \* caller have succeeded, and how many calls the two callers
             \* have started
    view     \* the list the latest call returned, when it was a query

vars == <<store, now, last, proc, tally, view>>

\* the concurrent callers
Procs == {"p", "q"}

(***************************************************************************)
(* The table and its constraints (app/models.py).                          *)
(***************************************************************************)
\* the table without the unique constraint
unique_schema_name_dropped(s, row) == TRUE

\* schema_name: unique=True
unique_schema_name(s, row) ==
    \A j \in DOMAIN s : j # row.id => s[j].schema_name # row.schema_name

\* schema_name, owner, creation_date, created_at, updated_at are not
\* Optional: their columns are NOT NULL; description is nullable.
not_null(row) ==
    /\ row.schema_name # NoneStr
    /\ row.owner # NoneStr
    /\ row.creation_date # NoDate
    /\ row.created_at # NoDate
    /\ row.updated_at # NoDate

\* id: primary key, left to the table on insert.  The declaration says no
\* more than that the key identifies the row: the table may assign any key
\* that no stored row has, the key of a deleted row included.
FreeIds(s) ==
    { id \in Nat : id # NoId /\ id \notin DOMAIN s }

\* the keys up to n the table may assign
FreeIdsUpTo(s, n) ==
    { id \in 1..n : id \in FreeIds(s) }

Put(s, row) ==
    [i \in DOMAIN s \cup {row.id} |-> IF i = row.id THEN row ELSE s[i]]

Remove(s, id) == [i \in DOMAIN s \ {id} |-> s[i]]

(***************************************************************************)
(* Lookups.                                                                *)
(***************************************************************************)
\* the id of the row found, NoId for None
get_data_product_by_id(s, data_product_id) ==
    IF data_product_id = NoId THEN NoId
    ELSE IF data_product_id \in DOMAIN s THEN data_product_id
    ELSE NoId

\* str.lower() of one character
LowerChar(c) ==
    CASE c = "A" -> "a"
      [] c = "B" -> "b"
      [] OTHER -> c

\* str.lower()
lower(chars) == [i \in DOMAIN chars |-> LowerChar(chars[i])]

\* str.strip(): the leading and the trailing blanks are dropped
RECURSIVE strip(_)
strip(chars) ==
    IF chars = <<>> THEN <<>>
    ELSE IF Head(chars) = " " THEN strip(Tail(chars))
    ELSE IF chars[Len(chars)] = " " THEN strip(SubSeq(chars, 1, Len(chars) - 1))
    ELSE chars

\* needle in hay
contains(hay, needle) ==
    \E k \in 0..(Len(hay) - Len(needle)) :
        SubSeq(hay, k + 1, k + Len(needle)) = needle

\* a lookup that compares the names in lower case
get_data_product_by_schema_name_ignoring_case(s, schema_name) ==
    IF schema_name = "" \/ schema_name = NoneStr THEN NoId
    ELSE IF \E j \in DOMAIN s :
               lower(Chars(s[j].schema_name)) = lower(Chars(schema_name))
         THEN CHOOSE j \in DOMAIN s :
               lower(Chars(s[j].schema_name)) = lower(Chars(schema_name))
         ELSE NoId

\* a lookup that queries for the empty name as for any other
get_data_product_by_schema_name_unguarded(s, schema_name) ==
    IF \E j \in DOMAIN s : s[j].schema_name = schema_name
    THEN CHOOSE j \in DOMAIN s : s[j].schema_name = schema_name
    ELSE NoId

\* `if not schema_name: return None`, else the first row of that name
get_data_product_by_schema_name(s, schema_name) ==
    IF schema_name = "" \/ schema_name = NoneStr THEN NoId
    ELSE IF \E j \in DOMAIN s : s[j].schema_name = schema_name
         THEN CHOOSE j \in DOMAIN s : s[j].schema_name = schema_name
         ELSE NoId

\* a count read off the highest id in use
get_data_products_count_highest_id(s) ==
    IF DOMAIN s = {} THEN 0
    ELSE CHOOSE n \in DOMAIN s : \A j \in DOMAIN s : j <= n

\* len(list(select(DataProduct)))
get_data_products_count(s) == Cardinality(DOMAIN s)

\* the rows of the table
Rows(s) == { s[i] : i \in DOMAIN s }

\* an ascending ordering: the rows that come first are the oldest
Oldest(rows) ==
    { r \in rows : \A o \in rows : r.creation_date <= o.creation_date }

\* desc(DataProduct.creation_date): the rows that come first, those of the
\* latest creation_date
Newest(rows) ==
    { r \in rows : \A o \in rows : r.creation_date >= o.creation_date }

\* order_by(desc(creation_date)): the lists the statement can return for
\* these rows; rows of equal creation_date come in any order
RECURSIVE SortedDesc(_)
SortedDesc(rows) ==
    IF rows = {} THEN { <<>> }
    ELSE UNION { { <<r>> \o rest : rest \in SortedDesc(rows \ {r}) } :
                 r \in Newest(rows) }

\* the rows in any order
Unordered(rows) ==
    { seq \in [1..Cardinality(rows) -> rows] :
        \A i \in DOMAIN seq : \A j \in DOMAIN seq : i # j => seq[i] # seq[j] }

\* a statement without order_by
get_all_data_products_unordered(s) == Unordered(Rows(s))

\* a statement ordered by creation_date ascending
get_all_data_products_ascending(s) ==
    { [i \in DOMAIN seq |-> seq[Len(seq) + 1 - i]] : seq \in SortedDesc(Rows(s)) }

\* select(DataProduct).order_by(desc(DataProduct.creation_date)): the lists
\* the call can return
get_all_data_products(s) == SortedDesc(Rows(s))

\* a match that compares the characters as they are
search_matches_case_sensitive(schema_name, term) ==
    IF strip(Chars(term)) = <<>> THEN TRUE
    ELSE contains(Chars(schema_name), Chars(term))

\* the filter of the search: a blank term matches every record, any other
\* term the records whose schema_name contains it, both in lower case
search_matches(schema_name, term) ==
    IF strip(Chars(term)) = <<>> THEN TRUE
    ELSE contains(lower(Chars(schema_name)), lower(Chars(term)))

\* search_data_products_by_schema_name: the lists the call can return, the
\* matching rows ordered as get_all_data_products orders them
search_data_products_by_schema_name(s, term) ==
    SortedDesc({ r \in Rows(s) : search_matches(r.schema_name, term) })

(***************************************************************************)
(* The writes of a session.                                                *)
(***************************************************************************)
\* session.add(new row); session.commit(): the INSERT is rejected
\* (IntegrityError) when a constraint of the table is violated.
insert_accepted(s, row) == not_null(row) /\ unique_schema_name(s, row)

\* an UPDATE that writes every column of the loaded object
flush_row_all_columns(current, loaded, modified) == modified

\* session.commit() of a loaded row whose attributes were set: the UPDATE
\* writes the columns whose value differs from the loaded one onto the row
\* now stored under that id.
flush_row(current, loaded, modified) ==
    [f \in DOMAIN current |->
        IF modified[f] # loaded[f] THEN modified[f] ELSE current[f]]

\* an UPDATE on columns that accept NULL
update_accepted_without_not_null(s, row) == unique_schema_name(s, row)

update_accepted(s, row) == not_null(row) /\ unique_schema_name(s, row)

(***************************************************************************)
(* create_data_product                                                     *)
(***************************************************************************)
\* a constructor call that leaves the description out
NewDataProduct_without_description(req, id, tc, ta, tu) ==
    [id |-> id,
     schema_name |-> req.schema_name,
     description |-> NoneStr,
     owner |-> req.owner,
     creation_date |-> IF req.creation_date # NoDate THEN req.creation_date ELSE tc,
     created_at |-> ta,
     updated_at |-> tu]

\* a constructor call that stamps creation_date whatever the request holds
NewDataProduct_stamping_creation_date(req, id, tc, ta, tu) ==
    [id |-> id,
     schema_name |-> req.schema_name,
     description |-> req.description,
     owner |-> req.owner,
     creation_date |-> tc,
     created_at |-> ta,
     updated_at |-> tu]

\* DataProduct(...): tc, ta, tu are the readings of the clock for
\* creation_date (read only when the request has none), created_at and
\* updated_at.
NewDataProduct(req, id, tc, ta, tu) ==
    [id |-> id,
     schema_name |-> req.schema_name,
     description |-> req.description,
     owner |-> req.owner,
     creation_date |-> IF req.creation_date # NoDate THEN req.creation_date ELSE tc,
     created_at |-> ta,
     updated_at |-> tu]

\* the existence check: TRUE when the call raises the 'already exists'
\* ValueError
create_name_taken(s, req) ==
    get_data_product_by_schema_name(s, req.schema_name) # NoId

\* session.refresh(instance): the SELECT of the row by its key, which raises
\* InvalidRequestError when the row is not in the table any more
refresh(s, id) ==
    IF id \in DOMAIN s THEN "ok" ELSE "InvalidRequestError"

\* the statement after a commit: the call goes on to session.refresh when
\* the commit has succeeded, on the table as the commit left it
refresh_after(out, id) ==
    IF out.result = "ok"
    THEN [out EXCEPT !.result = refresh(out.store, id)]
    ELSE out

\* session.add and session.commit of the constructed row: the INSERT; id is
\* the key the table assigns
create_insert(s, req, id, tc, ta, tu) ==
    IF insert_accepted(s, NewDataProduct(req, id, tc, ta, tu))
    THEN [result |-> "ok", store |-> Put(s, NewDataProduct(req, id, tc, ta, tu)),
          id |-> id]
    ELSE [result |-> "IntegrityError", store |-> s, id |-> NoId]

\* the whole call on table s
create_data_product(s, req, id, tc, ta, tu) ==
    IF create_name_taken(s, req)
    THEN [result |-> "ValueError", store |-> s, id |-> NoId]
    ELSE refresh_after(create_insert(s, req, id, tc, ta, tu), id)

(***************************************************************************)
(* update_data_product                                                     *)
(***************************************************************************)
\* model_dump() without exclude_unset: the unset fields are set to None too
apply_updates_all_fields(row, updates) ==
    [f \in DOMAIN row |-> IF f \in FieldNames THEN updates[f] ELSE row[f]]

\* updates.model_dump(exclude_unset=True) and the setattr loop: the fields
\* of fields_set are set on the loaded row, None included.
apply_updates(row, updates) ==
    [f \in DOMAIN row |->
        IF f \in updates.fields_set THEN updates[f] ELSE row[f]]

\* the uniqueness check is needed: a schema_name is given and it is not the
\* loaded one
update_checks_name(row, updates) ==
    /\ updates.schema_name # NoneStr
    /\ updates.schema_name # row.schema_name

\* a uniqueness check that does not set the record's own name aside
update_name_taken_self_included(s, row, updates) ==
    /\ updates.schema_name # NoneStr
    /\ get_data_product_by_schema_name(s, updates.schema_name) # NoId

\* the uniqueness check of the update: TRUE when the call raises the
\* 'already exists' ValueError
update_name_taken(s, row, updates) ==
    /\ update_checks_name(row, updates)
    /\ get_data_product_by_schema_name(s, updates.schema_name) # NoId

\* an update that builds a new record, without id, from the loaded one
updated_row_as_new_record(row, updates, t) ==
    [apply_updates(row, updates) EXCEPT !.updated_at = t, !.id = NoId]

\* an update that stamps created_at as well
updated_row_stamping_created_at(row, updates, t) ==
    [apply_updates(row, updates) EXCEPT !.updated_at = t, !.created_at = t]

\* the loaded row after the setattr loop and `updated_at = utcnow()`
updated_row(row, updates, t) ==
    [apply_updates(row, updates) EXCEPT !.updated_at = t]

\* a commit whose rejected UPDATE is not rolled back: updated_at is written
update_commit_not_rolled_back(s, loaded, updates, t) ==
    IF loaded.id \notin DOMAIN s
    THEN IF updated_row(loaded, updates, t) = loaded
         THEN [result |-> "ok", store |-> s]
         ELSE [result |-> "StaleDataError", store |-> s]
    ELSE IF update_accepted(s, flush_row(s[loaded.id], loaded,
                                         updated_row(loaded, updates, t)))
    THEN [result |-> "ok",
          store |-> Put(s, flush_row(s[loaded.id], loaded,
                                     updated_row(loaded, updates, t)))]
    ELSE [result |-> "IntegrityError",
          store |-> Put(s, [s[loaded.id] EXCEPT !.updated_at = t])]

\* session.add and session.commit of the loaded row. No UPDATE is issued
\* when no attribute of the loaded row has changed, and the commit succeeds;
\* an UPDATE finds no row (StaleDataError) when the record is gone, and is
\* rejected (IntegrityError) when a constraint of the table is violated
update_commit(s, loaded, updates, t) ==
    IF loaded.id \notin DOMAIN s
    THEN IF updated_row(loaded, updates, t) = loaded
         THEN [result |-> "ok", store |-> s]
         ELSE [result |-> "StaleDataError", store |-> s]
    ELSE IF update_accepted(s, flush_row(s[loaded.id], loaded,
                                         updated_row(loaded, updates, t)))
    THEN [result |-> "ok",
          store |-> Put(s, flush_row(s[loaded.id], loaded,
                                     updated_row(loaded, updates, t)))]
    ELSE [result |-> "IntegrityError", store |-> s]

\* a call that runs the uniqueness check before it looks the record up
update_data_product_checking_name_first(s, data_product_id, updates, t) ==
    IF update_name_taken(s, NoRow, updates)
    THEN [result |-> "ValueError", store |-> s]
    ELSE IF get_data_product_by_id(s, data_product_id) = NoId
    THEN [result |-> "None", store |-> s]
    ELSE refresh_after(update_commit(s, s[data_product_id], updates, t),
                       data_product_id)

\* the whole call on table s; t is the reading of the clock
update_data_product(s, data_product_id, updates, t) ==
    IF get_data_product_by_id(s, data_product_id) = NoId
    THEN [result |-> "None", store |-> s]
    ELSE IF update_name_taken(s, s[data_product_id], updates)
    THEN [result |-> "ValueError", store |-> s]
    ELSE refresh_after(update_commit(s, s[data_product_id], updates, t),
                       data_product_id)

(***************************************************************************)
(* delete_data_product                                                     *)
(***************************************************************************)
\* a soft delete: the row stays in the table
delete_commit_keeping_row(s, loaded) ==
    [result |-> "True", store |-> s]

\* a commit that empties the table
delete_commit_all_rows(s, loaded) ==
    [result |-> "True", store |-> [i \in {} |-> NoRow]]

\* session.delete and commit of the loaded row
delete_commit(s, loaded) ==
    [result |-> "True", store |-> Remove(s, loaded.id)]

\* a call that does not return when the load by id finds nothing
delete_data_product_unguarded(s, data_product_id) ==
    delete_commit(s, [NoRow EXCEPT !.id = data_product_id])

\* the whole call on table s
delete_data_product(s, data_product_id) ==
    IF get_data_product_by_id(s, data_product_id) = NoId
    THEN [result |-> "False", store |-> s]
    ELSE delete_commit(s, s[data_product_id])

(***************************************************************************)
(* The service called by one caller at a time.                             *)
(***************************************************************************)
\* who holds the schema_name a request supplies: the record the call names
\* ("self"), another stored record ("other") or no stored record ("none")
Holder(s, data_product_id, schema_name) ==
    IF data_product_id \in DOMAIN s /\ s[data_product_id].schema_name = schema_name
    THEN "self"
    ELSE IF \E j \in DOMAIN s : s[j].schema_name = schema_name
    THEN "other"
    ELSE "none"

\* a call for an id that is not stored returns before it reads the request:
\* one request stands for all of them
UpdateRequestsFor(s, data_product_id) ==
    IF data_product_id \in DOMAIN s THEN DataProductUpdate ELSE {NoRequest}

\* no query has returned a list
NoView == [op |-> "none", term |-> NoneStr, rows |-> <<>>]

IdleCaller ==
    [pc |-> "idle", op |-> "none", req |-> NoRequest, loaded |-> NoRow,
     stamp |-> NoDate, result |-> "none", rivals |-> {}, gone |-> FALSE]

Init ==
    /\ store = [i \in {} |-> NoRow]
    /\ now = 0
    /\ last = [op |-> "none", id |-> NoId, result |-> "none", held |-> "none"]
    /\ proc = [p \in Procs |-> IdleCaller]
    /\ tally = [created |-> 0, deleted |-> 0, started |-> 0]
    /\ view = NoView

Create ==
    \E req \in DataProductCreate :
      \E tc \in now..MaxTime :
        \E ta \in tc..MaxTime :
          \E tu \in ta..MaxTime :
           \E id \in FreeIdsUpTo(store, MaxId + 1) :
            \E out \in {create_data_product(store, req, id, tc, ta, tu)} :
              /\ out.result = "ok" => (out.id \in Ids /\ tally.created < MaxCreated)
              /\ req.creation_date # NoDate => tc = now
              /\ out.result = "ValueError" => tu = now
              /\ store' = out.store
              /\ now' = tu
              /\ last' = [op |-> "create", id |-> out.id, result |-> out.result,
                          held |-> Holder(store, NoId, req.schema_name)]
              /\ tally' = IF out.result = "ok"
                          THEN [tally EXCEPT !.created = @ + 1] ELSE tally
              /\ UNCHANGED <<proc, view>>

Update ==
    \E data_product_id \in Ids \cup {NoId} :
      \E updates \in UpdateRequestsFor(store, data_product_id), t \in now..MaxTime :
        \E out \in {update_data_product(store, data_product_id, updates, t)} :
          /\ out.result \in {"None", "ValueError"} => t = now
          /\ store' = out.store
          /\ now' = t
          /\ last' = [op |-> "update", id |-> data_product_id,
                      result |-> out.result,
                      held |-> Holder(store, data_product_id, updates.schema_name)]
          /\ UNCHANGED <<proc, tally, view>>

Delete ==
    \E data_product_id \in Ids \cup {NoId} :
      \E out \in {delete_data_product(store, data_product_id)} :
        /\ store' = out.store
        /\ last' = [op |-> "delete", id |-> data_product_id,
                    result |-> out.result, held |-> "none"]
        /\ tally' = IF out.result = "True"
                    THEN [tally EXCEPT !.deleted = @ + 1] ELSE tally
        /\ UNCHANGED <<now, proc, view>>

Next == Create \/ Update \/ Delete

Spec == Init /\ [][Next]_vars

(***************************************************************************)
(* The queries: records are created one after the other, with the clock    *)
(* standing still, and listed and searched in between.                     *)
(***************************************************************************)
QueryCreateRequests ==
    [schema_name : QueryNames,
     description : {NoneStr},
     owner : {"o"},
     creation_date : 0..MaxDate,
     fields_set : {FieldNames}]

QueryCreate ==
    /\ \E req \in QueryCreateRequests, id \in FreeIdsUpTo(store, MaxRows) :
         \E out \in {create_data_product(store, req, id, now, now, now)} :
           /\ store' = out.store
           /\ last' = [op |-> "create", id |-> out.id, result |-> out.result,
                       held |-> Holder(store, NoId, req.schema_name)]
           /\ tally' = IF out.result = "ok"
                       THEN [tally EXCEPT !.created = @ + 1] ELSE tally
           /\ view' = NoView
    /\ UNCHANGED <<now, proc>>

ListAll ==
    /\ \E rows \in get_all_data_products(store) :
         view' = [op |-> "list", term |-> NoneStr, rows |-> rows]
    /\ last' = [op |-> "list", id |-> NoId, result |-> "ok", held |-> "none"]
    /\ UNCHANGED <<store, now, proc, tally>>

Search ==
    /\ \E term \in SearchTerms :
         \E rows \in search_data_products_by_schema_name(store, term) :
           view' = [op |-> "search", term |-> term, rows |-> rows]
    /\ last' = [op |-> "search", id |-> NoId, result |-> "ok", held |-> "none"]
    /\ UNCHANGED <<store, now, proc, tally>>

QueryNext == QueryCreate \/ ListAll \/ Search

QuerySpec == Init /\ [][QueryNext]_vars

(***************************************************************************)
(* seed_sample_data (app/seed_data.py), called at startup, among creates   *)
(* and deletes.  Time is counted in days here.                             *)
(***************************************************************************)
\* sample_data: age is the timedelta(days=...) taken off the clock
SampleData ==
    << [schema_name |-> "customer_analytics",
        description |-> "Customer behavior and segmentation analysis data",
        owner |-> "analytics-team@company.com", age |-> 30],
       [schema_name |-> "sales_performance",
        description |-> "Sales metrics, targets, and performance tracking",
        owner |-> "sales-ops@company.com", age |-> 25],
       [schema_name |-> "marketing_campaigns",
        description |-> "Campaign performance, attribution, and ROI analysis",
        owner |-> "marketing-team@company.com", age |-> 20],
       [schema_name |-> "product_usage",
        description |-> "Product feature usage, user engagement metrics",
        owner |-> "product-team@company.com", age |-> 15],
       [schema_name |-> "financial_reporting",
        description |-> "Revenue, costs, and financial KPI tracking",
        owner |-> "finance-team@company.com", age |-> 10],
       [schema_name |-> "operational_metrics",
        description |-> "System performance, uptime, and operational data",
        owner |-> "devops-team@company.com", age |-> 5] >>

\* the clock at the start of the seeding runs: late enough for every
\* sample creation_date to be a date
SeedEpoch ==
    CHOOSE a \in { SampleData[k].age : k \in DOMAIN SampleData } :
        \A k \in DOMAIN SampleData : SampleData[k].age <= a

SeedEnd == SeedEpoch + SeedTicks

\* n consecutive readings of the clock, the first one at t or later
RECURSIVE Readings(_, _)
Readings(t, n) ==
    IF n = 0 THEN { <<>> }
    ELSE UNION { { <<v>> \o rest : rest \in Readings(v, n - 1) } : v \in t..SeedEnd }

\* the readings of one seeding call: one per sample for its creation_date,
\* then two per create (created_at, updated_at)
SeedReadings(t) == Readings(t, 3 * Len(SampleData))

\* DataProductCreate(**data) for the k-th sample; t is the reading of the
\* clock its creation_date is computed from
SampleRequest(k, t) ==
    [schema_name |-> SampleData[k].schema_name,
     description |-> SampleData[k].description,
     owner |-> SampleData[k].owner,
     creation_date |-> t - SampleData[k].age,
     fields_set |-> FieldNames]

\* the n lowest keys at or above from that the table may assign, in
\* increasing order
RECURSIVE FreeRun(_, _, _)
FreeRun(s, from, n) ==
    IF n = 0 THEN <<>>
    ELSE IF from \in FreeIds(s) THEN <<from>> \o FreeRun(s, from + 1, n - 1)
    ELSE FreeRun(s, from + 1, n)

\* the keys the table assigns to the creates of one seeding call, in the
\* seeding runs: free keys in increasing order, the first samples within
\* 1..MaxSeedId
SeedKeys(s) ==
    { FreeRun(s, from, Len(SampleData)) :
        from \in 1..(MaxSeedId - Len(SampleData) + 1) }

\* the loop over sample_data from the k-th sample on: a create that raises
\* is logged and the loop goes on; keys[k] is the key the table assigns to
\* the k-th create
RECURSIVE seed_creates(_, _, _, _)
seed_creates(s, reads, keys, k) ==
    IF k > Len(SampleData) THEN s
    ELSE seed_creates(
             create_data_product(s, SampleRequest(k, reads[k]), keys[k], reads[k],
                 reads[Len(SampleData) + 2 * k - 1],
                 reads[Len(SampleData) + 2 * k]).store,
             reads, keys, k + 1)

\* a seeding that does not look at the count
seed_sample_data_unguarded(s, reads, keys) ==
    [result |-> "seeded", store |-> seed_creates(s, reads, keys, 1)]

\* the whole call on table s
seed_sample_data(s, reads, keys) ==
    IF get_data_products_count(s) > 0
    THEN [result |-> "skipped", store |-> s]
    ELSE [result |-> "seeded", store |-> seed_creates(s, reads, keys, 1)]

SeedInit ==
    /\ store = [i \in {} |-> NoRow]
    /\ now = SeedEpoch
    /\ last = [op |-> "none", id |-> NoId, result |-> "none", held |-> "none"]
    /\ proc = [p \in Procs |-> IdleCaller]
    /\ tally = [created |-> 0, deleted |-> 0, started |-> 0]
    /\ view = NoView

Seed ==
    /\ Len(SampleData) <= MaxSeedId
    /\ tally.created + Len(SampleData) <= MaxSeedCreated
    /\ \E reads \in SeedReadings(now), keys \in SeedKeys(store) :
         \E out \in {seed_sample_data(store, reads, keys)} :
           /\ store' = out.store
           /\ now' = IF out.result = "seeded" THEN reads[Len(reads)] ELSE now
           /\ out.result = "skipped" => reads[Len(reads)] = now
           /\ last' = [op |-> "seed", id |-> NoId, result |-> out.result,
                       held |-> "none"]
           /\ tally' = [tally EXCEPT !.created = @ + get_data_products_count(out.store)
                                                    - get_data_products_count(store)]
    /\ UNCHANGED <<proc, view>>

\* the requests of the creates made next to the seeding
SeedCreateRequests ==
    [schema_name : {"existing_schema", SampleData[1].schema_name},
     description : {NoneStr},
     owner : {"existing@company.com"},
     creation_date : {NoDate},
     fields_set : {FieldNames}]

SeedCreate ==
    /\ tally.created < MaxSeedCreated
    /\ \E req \in SeedCreateRequests, id \in FreeIdsUpTo(store, MaxSeedId) :
         \E out \in {create_data_product(store, req, id, now, now, now)} :
           /\ store' = out.store
           /\ last' = [op |-> "create", id |-> out.id, result |-> out.result,
                       held |-> Holder(store, NoId, req.schema_name)]
           /\ tally' = IF out.result = "ok"
                       THEN [tally EXCEPT !.created = @ + 1] ELSE tally
    /\ UNCHANGED <<now, proc, view>>

SeedDelete ==
    /\ \E data_product_id \in DOMAIN store :
         \E out \in {delete_data_product(store, data_product_id)} :
           /\ store' = out.store
           /\ last' = [op |-> "delete", id |-> data_product_id,
                       result |-> out.result, held |-> "none"]
           /\ tally' = [tally EXCEPT !.deleted = @ + 1]
    /\ UNCHANGED <<now, proc, view>>

SeedNext == Seed \/ SeedCreate \/ SeedDelete

SeedSpec == SeedInit /\ [][SeedNext]_vars

(***************************************************************************)
(* The service called by two callers at once.  A call runs its statements  *)
(* against the table one at a time (the lookup by schema_name, the load by *)
(* id, the commit); between two statements of a call the other caller may  *)
(* run statements of its own.                                              *)
(***************************************************************************)
ConcCreateRequests ==
    { r \in DataProductCreate :
        /\ r.schema_name \in {"", "a"}
        /\ r.description = NoneStr
        /\ r.creation_date = 0 }

ConcUpdateRequests ==
    { r \in DataProductUpdate :
        /\ r.fields_set \in {{"schema_name"}, {"description"}, {"owner"}}
        /\ r.schema_name \in {NoneStr, "a"}
        /\ "schema_name" \in r.fields_set => r.schema_name # NoneStr
        /\ "description" \in r.fields_set => r.description # NoneStr
        /\ "owner" \in r.fields_set => r.owner # NoneStr }

Finished(p, op, req, result) ==
    [proc EXCEPT ![p] = [pc |-> "idle", op |-> op, req |-> req,
                         loaded |-> NoRow, stamp |-> NoDate, result |-> result,
                         rivals |-> proc[p].rivals, gone |-> proc[p].gone]]

\* the callers that have passed the existence check for the schema_name p
\* is about to insert and have not inserted yet
Rivals(p) ==
    { q \in Procs \ {p} :
        /\ proc[q].pc \in {"create_construct", "create_insert"}
        /\ proc[q].req.schema_name = proc[p].req.schema_name }

\* create_data_product up to the existence check
CreateCheck(p) ==
    /\ proc[p].pc = "idle"
    /\ tally.started < MaxCalls
    /\ tally' = [tally EXCEPT !.started = @ + 1]
    /\ FreeIdsUpTo(store, MaxId) # {}
    /\ \E req \in ConcCreateRequests :
         proc' = IF create_name_taken(store, req)
                 THEN [proc EXCEPT ![p] = [IdleCaller EXCEPT !.op = "create",
                                              !.req = req, !.result = "ValueError"]]
                 ELSE [proc EXCEPT ![p] = [IdleCaller EXCEPT !.op = "create",
                                              !.req = req,
                                              !.pc = "create_construct"]]
    /\ UNCHANGED <<store, now, last, view>>

\* create_data_product: the construction of the row, with its readings of
\* the clock (creation_date only when the request has none)
CreateConstruct(p) ==
    /\ proc[p].pc = "create_construct"
    /\ \E tc \in IF proc[p].req.creation_date = NoDate
                 THEN now..MaxTime ELSE {now} :
        \E ta \in tc..MaxTime :
          \E tu \in ta..MaxTime :
            /\ now' = tu
            /\ proc' = [proc EXCEPT
                          ![p].loaded = NewDataProduct(proc[p].req, NoId, tc, ta, tu),
                          ![p].pc = "create_insert"]
    /\ UNCHANGED <<store, last, tally, view>>

\* create_data_product: session.add and the commit of the constructed row
CreateInsert(p) ==
    /\ proc[p].pc = "create_insert"
    /\ \E id \in FreeIdsUpTo(store, MaxId + 1) :
        \E out \in {create_insert(store, proc[p].req, id,
                                 proc[p].loaded.creation_date,
                                 proc[p].loaded.created_at,
                                 proc[p].loaded.updated_at)} :
         /\ out.result = "ok" => out.id \in Ids
         /\ store' = out.store
         /\ proc' = [q \in Procs |->
                       IF q = p
                       THEN [pc |-> IF out.result = "ok"
                                    THEN "create_refresh" ELSE "idle",
                             op |-> "create", req |-> proc[p].req,
                             loaded |-> [NoRow EXCEPT !.id = out.id],
                             stamp |-> NoDate,
                             result |-> IF out.result = "ok"
                                        THEN "none" ELSE out.result,
                             rivals |-> proc[p].rivals \cup Rivals(p),
                             gone |-> FALSE]
                       ELSE IF q \in Rivals(p)
                       THEN [proc[q] EXCEPT !.rivals = @ \cup {p}]
                       ELSE proc[q]]
    /\ UNCHANGED <<now, last, tally, view>>

\* create_data_product: session.refresh of the inserted row
CreateRefresh(p) ==
    /\ proc[p].pc = "create_refresh"
    /\ proc' = [proc EXCEPT ![p].pc = "idle",
                            ![p].result = refresh(store, proc[p].loaded.id)]
    /\ UNCHANGED <<store, now, last, tally, view>>

\* update_data_product up to the load by id
UpdateLoad(p) ==
    /\ proc[p].pc = "idle"
    /\ tally.started < MaxCalls
    /\ tally' = [tally EXCEPT !.started = @ + 1]
    /\ \E data_product_id \in Ids, updates \in ConcUpdateRequests :
         proc' = IF get_data_product_by_id(store, data_product_id) = NoId
                 THEN [proc EXCEPT ![p] = [IdleCaller EXCEPT !.op = "update",
                                              !.result = "None"]]
                 ELSE [proc EXCEPT ![p] =
                         [IdleCaller EXCEPT
                            !.op = "update", !.req = updates,
                            !.loaded = store[data_product_id],
                            !.pc = IF update_checks_name(store[data_product_id], updates)
                                   THEN "update_check" ELSE "update_stamp"]]
    /\ UNCHANGED <<store, now, last, view>>

\* the uniqueness check of update_data_product
UpdateCheck(p) ==
    /\ proc[p].pc = "update_check"
    /\ proc' = IF update_name_taken(store, proc[p].loaded, proc[p].req)
               THEN Finished(p, "update", NoRequest, "ValueError")
               ELSE [proc EXCEPT ![p].pc = "update_stamp"]
    /\ UNCHANGED <<store, now, last, tally, view>>

\* update_data_product: the setattr loop and the reading of the clock for
\* updated_at
UpdateStamp(p) ==
    /\ proc[p].pc = "update_stamp"
    /\ \E t \in now..MaxTime :
         /\ now' = t
         /\ proc' = [proc EXCEPT ![p].stamp = t, ![p].pc = "update_commit"]
    /\ UNCHANGED <<store, last, tally, view>>

\* the callers that have loaded the record p is about to write and have
\* not written yet
UpdateRivals(p) ==
    { q \in Procs \ {p} :
        /\ proc[q].pc \in {"update_check", "update_stamp", "update_commit"}
        /\ proc[q].loaded.id = proc[p].loaded.id }

\* update_data_product: session.add and the commit of the loaded row
UpdateCommit(p) ==
    /\ proc[p].pc = "update_commit"
    /\ \E out \in {update_commit(store, proc[p].loaded, proc[p].req,
                                 proc[p].stamp)} :
         /\ store' = out.store
         /\ proc' = [q \in Procs |->
                       IF q = p
                       THEN [pc |-> IF out.result = "ok"
                                    THEN "update_refresh" ELSE "idle",
                             op |-> "update", req |-> proc[p].req,
                             loaded |-> [NoRow EXCEPT !.id = proc[p].loaded.id],
                             stamp |-> NoDate,
                             result |-> IF out.result = "ok"
                                        THEN "none" ELSE out.result,
                             rivals |-> proc[p].rivals \cup UpdateRivals(p),
                             gone |-> proc[p].gone]
                       ELSE IF q \in UpdateRivals(p)
                       THEN [proc[q] EXCEPT !.rivals = @ \cup {p}]
                       ELSE proc[q]]
    /\ UNCHANGED <<now, last, tally, view>>

\* update_data_product: session.refresh of the written row
UpdateRefresh(p) ==
    /\ proc[p].pc = "update_refresh"
    /\ proc' = [proc EXCEPT ![p].pc = "idle",
                            ![p].result = refresh(store, proc[p].loaded.id)]
    /\ UNCHANGED <<store, now, last, tally, view>>

\* delete_data_product up to the load by id
DeleteLoad(p) ==
    /\ proc[p].pc = "idle"
    /\ tally.started < MaxCalls
    /\ tally' = [tally EXCEPT !.started = @ + 1]
    /\ \E data_product_id \in Ids :
         proc' = IF get_data_product_by_id(store, data_product_id) = NoId
                 THEN [proc EXCEPT ![p] = [IdleCaller EXCEPT !.op = "delete",
                                              !.result = "False"]]
                 ELSE [proc EXCEPT ![p] = [IdleCaller EXCEPT !.op = "delete",
                                              !.loaded = store[data_product_id],
                                              !.pc = "delete_commit"]]
    /\ UNCHANGED <<store, now, last, view>>

\* the callers in an update of the record p is about to delete: the row
\* they loaded is gone from the table once p has committed
Bereft(p) ==
    { q \in Procs \ {p} :
        /\ proc[q].pc \in {"update_check", "update_stamp", "update_commit"}
        /\ proc[q].loaded.id = proc[p].loaded.id }

\* delete_data_product: session.delete and the commit
DeleteCommit(p) ==
    /\ proc[p].pc = "delete_commit"
    /\ \E out \in {delete_commit(store, proc[p].loaded)} :
          /\ store' = out.store
          /\ proc' = [q \in Procs |->
                        IF q \in Bereft(p)
                        THEN [proc[q] EXCEPT !.gone = TRUE]
                        ELSE Finished(p, "delete", NoRequest, out.result)[q]]
    /\ UNCHANGED <<now, last, tally, view>>

ConcNext ==
    \E p \in Procs :
        \/ CreateCheck(p)
        \/ CreateConstruct(p)
        \/ CreateInsert(p)
        \/ CreateRefresh(p)
        \/ UpdateLoad(p)
        \/ UpdateCheck(p)
        \/ UpdateStamp(p)
        \/ UpdateCommit(p)
        \/ UpdateRefresh(p)
        \/ DeleteLoad(p)
        \/ DeleteCommit(p)

ConcSpec == Init /\ [][ConcNext]_vars

TypeOK ==
    /\ \A i \in DOMAIN store : store[i].id = i
    /\ now \in Times
    /\ \A p \in Procs :
         proc[p].pc \in {"idle", "create_construct", "create_insert",
                         "create_refresh", "update_check", "update_stamp",
                         "update_commit", "update_refresh", "delete_commit"}

(***************************************************************************)
(* Claims about the service called by one caller at a time (Spec).         *)
(***************************************************************************)
\* every outcome a create call can have in the current state
CreateOutcomes ==
    { [req |-> req, out |-> create_data_product(store, req, id, tc, ta, tu)] :
        req \in DataProductCreate, id \in FreeIdsUpTo(store, MaxId + 1),
        tc \in now..MaxTime, ta \in now..MaxTime, tu \in now..MaxTime }

\* C1: no two stored records have the same schema_name, in every state
\* reachable by create, update and delete calls from the empty store.
C1_SchemaNameUnique ==
    \A i \in DOMAIN store : \A j \in DOMAIN store :
        i # j => store[i].schema_name # store[j].schema_name

\* two records are stored and the latest call, which asked for the
\* schema_name of one of them, was turned down
C1_Witness ==
    /\ Cardinality(DOMAIN store) = 2
    /\ last.held = "other"
    /\ last.result \in {"ValueError", "IntegrityError"}

\* C2: a create whose schema_name equals that of a stored record fails with
\* the 'already exists' ValueError and leaves the store as it was.
C2_DuplicateCreateIsValueError ==
    /\ (last.op = "create" /\ last.held = "other") => last.result = "ValueError"
    /\ \A c \in CreateOutcomes :
          (\E j \in DOMAIN store : store[j].schema_name = c.req.schema_name)
              => c.out.result # "ok" /\ c.out.store = store

\* C5: after a create that succeeds, the lookup by the returned id yields a
\* record with the request's schema_name, description, owner and (when
\* supplied) creation_date, and with id, created_at and updated_at set.
C5_CreateThenGetById ==
    \A c \in CreateOutcomes :
        c.out.result = "ok" =>
            LET found == get_data_product_by_id(c.out.store, c.out.id) IN
            /\ found # NoId
            /\ c.out.store[found].id = c.out.id
            /\ c.out.store[found].schema_name = c.req.schema_name
            /\ c.out.store[found].description = c.req.description
            /\ c.out.store[found].owner = c.req.owner
            /\ c.req.creation_date # NoDate
                   => c.out.store[found].creation_date = c.req.creation_date
            /\ c.out.store[found].created_at # NoDate
            /\ c.out.store[found].updated_at # NoDate

\* a create with a description has just succeeded
C5_Witness ==
    /\ last.op = "create"
    /\ last.result = "ok"
    /\ get_data_product_by_id(store, last.id) # NoId
    /\ store[last.id].description = "d"

\* C6: the record a successful create returns has created_at equal to
\* updated_at, whatever the clock reads during the call.
C6_CreatedAtEqualsUpdatedAt ==
    (last.op = "create" /\ last.result = "ok")
        => store[last.id].created_at = store[last.id].updated_at

\* every outcome an update call on a stored record can have in the current
\* state
UpdateOutcomes ==
    { [id |-> id, req |-> updates,
       out |-> update_data_product(store, id, updates, t)] :
        id \in DOMAIN store, updates \in DataProductUpdate, t \in now..MaxTime }

\* the supplied fields of the request are on the record, the others are as
\* they were
Merged(before, after, updates) ==
    /\ after.id = before.id
    /\ after.created_at = before.created_at
    /\ \A f \in FieldNames :
          after[f] = IF f \in updates.fields_set THEN updates[f] ELSE before[f]

\* C7: a successful update changes, on the record with that id, only the
\* supplied fields (and updated_at); the fields not supplied keep their
\* value and every other record is left as it was.
C7_UpdateChangesOnlySuppliedFields ==
    \A u \in UpdateOutcomes :
        u.out.result = "ok" =>
            /\ DOMAIN u.out.store = DOMAIN store
            /\ \A j \in DOMAIN store \ {u.id} : u.out.store[j] = store[j]
            /\ Merged(store[u.id], u.out.store[u.id], u.req)

\* an update has just succeeded on one of two stored records
C7_Witness ==
    /\ last.op = "update"
    /\ last.result = "ok"
    /\ Cardinality(DOMAIN store) = 2
    /\ store[last.id].description = "d"
    /\ store[last.id].owner = "o"

\* C8: a successful update leaves updated_at strictly greater than it was,
\* and no call ever lowers the updated_at of a record.
C8_UpdatedAtStrictlyIncreases ==
    [][ /\ (last'.op = "update" /\ last'.result = "ok")
            => store'[last'.id].updated_at > store[last'.id].updated_at
        /\ \A i \in DOMAIN store \cap DOMAIN store' :
            store'[i].updated_at >= store[i].updated_at ]_vars

\* C9: created_at of a stored record keeps the value of its creation
\* through every call.
C9_CreatedAtNeverChanges ==
    [][ \A i \in DOMAIN store \cap DOMAIN store' :
            store'[i].created_at = store[i].created_at ]_vars

\* an update has succeeded at a later clock reading than the creation
C9_Witness ==
    /\ last.op = "update"
    /\ last.result = "ok"
    /\ store[last.id].created_at < store[last.id].updated_at

\* the update requests that name the current schema_name of the record
SameNameOutcomes ==
    { u \in UpdateOutcomes :
        /\ "schema_name" \in u.req.fields_set
        /\ u.req.schema_name = store[u.id].schema_name }

\* C10 as claimed: an update whose request names the record's current
\* schema_name always succeeds and applies the other supplied fields.
C10_SameNameAlwaysSucceeds ==
    /\ (last.op = "update" /\ last.held = "self") => last.result = "ok"
    /\ \A u \in SameNameOutcomes :
          u.out.result = "ok" => Merged(store[u.id], u.out.store[u.id], u.req)

\* the request sets a required column (owner, creation_date) to None
SetsRequiredToNone(updates) ==
    \/ ("owner" \in updates.fields_set /\ updates.owner = NoneStr)
    \/ ("creation_date" \in updates.fields_set /\ updates.creation_date = NoDate)

\* C10 as amended: an update whose request names the record's current
\* schema_name is never turned down as a duplicate; it succeeds and applies
\* the other supplied fields unless the request sets owner or creation_date
\* to None, and then it fails at the write with the store left as it was.
C10_SameNameNeverDuplicate ==
    \A u \in SameNameOutcomes :
        /\ u.out.result # "ValueError"
        /\ ~SetsRequiredToNone(u.req)
              => /\ u.out.result = "ok"
                 /\ Merged(store[u.id], u.out.store[u.id], u.req)
        /\ SetsRequiredToNone(u.req)
              => u.out.result = "IntegrityError" /\ u.out.store = store

\* an update naming the current schema_name has just succeeded
C10_Witness ==
    /\ last.op = "update"
    /\ last.result = "ok"
    /\ last.held = "self"
    /\ store[last.id].schema_name = "a"

\* C16: after any sequence of create, update and delete calls, succeeded or
\* failed, get_data_products_count equals the length of the list
\* get_all_data_products returns, which equals the number of creates that
\* succeeded minus the number of deletes that succeeded.
C16_CountEqualsListLength ==
    /\ \A rows \in get_all_data_products(store) :
          get_data_products_count(store) = Len(rows)
    /\ get_data_products_count(store) = tally.created - tally.deleted

\* a create has succeeded, a delete has succeeded, and the latest call, an
\* update, has failed
C16_Witness ==
    /\ tally.created = 2
    /\ tally.deleted = 1
    /\ last.op = "update"
    /\ last.result = "IntegrityError"

\* the update requests that supply a schema_name held by another record
OtherNameOutcomes ==
    { u \in UpdateOutcomes :
        /\ "schema_name" \in u.req.fields_set
        /\ Holder(store, u.id, u.req.schema_name) = "other" }

\* C11: an update whose request supplies a schema_name held by a different
\* stored record fails with the 'already exists' ValueError and leaves the
\* whole store as it was, the other fields of the request included.
C11_DuplicateUpdateIsValueError ==
    /\ (last.op = "update" /\ last.held = "other") => last.result = "ValueError"
    /\ \A u \in OtherNameOutcomes :
          u.out.result = "ValueError" /\ u.out.store = store

\* the same for the schema names the uniqueness check looks up; for the
\* empty name the write is turned down by the table and the store is left
\* as it was
DuplicateUpdateOfNonEmptyName ==
    \A u \in OtherNameOutcomes :
        /\ u.out.store = store
        /\ u.out.result = IF u.req.schema_name = "" THEN "IntegrityError"
                          ELSE "ValueError"

C13_DeleteOfAbsentIsFalse ==
    /\ \A id \in (Ids \cup {NoId}) \ DOMAIN store :
          delete_data_product(store, id) = [result |-> "False", store |-> store]
    /\ last.op = "delete" => last.result \in {"True", "False"}

\* a delete of an id that is not stored has just returned false while a
\* record is stored
C13_Witness ==
    /\ last.op = "delete"
    /\ last.result = "False"
    /\ last.id \in Ids
    /\ Cardinality(DOMAIN store) = 1

\* C14: an update on a null id or on an id of no stored record returns
\* None for every request, also when the request's schema_name is held by
\* a stored record, raises no error and leaves the store as it was.
C14_UpdateOfAbsentIsNone ==
    \A id \in (Ids \cup {NoId}) \ DOMAIN store :
        \A updates \in DataProductUpdate : \A t \in now..MaxTime :
            update_data_product(store, id, updates, t)
                = [result |-> "None", store |-> store]

\* an update of an id that is not stored has just returned None while a
\* record named "a" is stored
C14_Witness ==
    /\ last.op = "update"
    /\ last.result = "None"
    /\ last.id \in Ids
    /\ \E j \in DOMAIN store : store[j].schema_name = "a"

\* C21: a create stores the creation_date of the request as it is when the
\* request supplies one, and the reading of the clock during the call when
\* the request omits it; the stored creation_date is never absent.
C21_CreationDateSuppliedOrNow ==
    /\ \A req \in DataProductCreate :
        \A tc \in now..MaxTime : \A ta \in tc..MaxTime : \A tu \in ta..MaxTime :
         \A id \in FreeIdsUpTo(store, MaxId + 1) :
          LET out == create_data_product(store, req, id, tc, ta, tu) IN
          out.result = "ok" =>
              out.store[out.id].creation_date =
                  IF req.creation_date # NoDate THEN req.creation_date ELSE tc
    /\ \A i \in DOMAIN store : store[i].creation_date # NoDate

\* a create without creation_date has succeeded with the clock at 1, next
\* to a record created with creation_date 0
C21_Witness ==
    /\ last.op = "create"
    /\ last.result = "ok"
    /\ store[last.id].creation_date = 1
    /\ \E j \in DOMAIN store : store[j].creation_date = 0 /\ store[j].created_at = 1

\* C22: the ids of the stored records are pairwise distinct, and no update
\* changes the id of a record: after an update that succeeds the record is
\* stored under the id the call was given, and the ids in use are the same.
C22_IdsDistinctAndKept ==
    /\ \A i \in DOMAIN store : \A j \in DOMAIN store :
          i # j => store[i].id # store[j].id
    /\ \A i \in DOMAIN store : get_data_product_by_id(store, store[i].id) = i
    /\ \A u \in UpdateOutcomes :
          u.out.result = "ok" =>
              /\ get_data_product_by_id(u.out.store, u.id) = u.id
              /\ u.out.store[u.id].id = u.id
              /\ { u.out.store[i].id : i \in DOMAIN u.out.store }
                     = { store[i].id : i \in DOMAIN store }

\* the second of two stored records has just been renamed
C22_Witness ==
    /\ Cardinality(DOMAIN store) = 2
    /\ last.op = "update"
    /\ last.result = "ok"
    /\ last.held = "none"
    /\ last.id = 2
    /\ store[2].id = 2
    /\ store[2].schema_name = "A"

\* C23: the lookup by a null id and the lookup by the empty schema_name
\* return absent, the lookup by an id that is not stored returns absent,
\* and the lookup by a non-empty schema_name returns the stored record of
\* exactly that name, or absent when there is none.
C23_LookupsReturnRecordOrAbsent ==
    /\ get_data_product_by_id(store, NoId) = NoId
    /\ \A id \in Ids \ DOMAIN store : get_data_product_by_id(store, id) = NoId
    /\ get_data_product_by_schema_name(store, "") = NoId
    /\ \A n \in SchemaNames \ {""} :
          LET found == get_data_product_by_schema_name(store, n) IN
          IF \E j \in DOMAIN store : store[j].schema_name = n
          THEN found \in DOMAIN store /\ store[found].schema_name = n
          ELSE found = NoId

\* records named "" and "a" are stored: the lookup by "" returns absent,
\* the lookup by "a" its record, the lookup by "A" absent
C23_Witness ==
    /\ \E j \in DOMAIN store : store[j].schema_name = ""
    /\ get_data_product_by_schema_name(store, "") = NoId
    /\ get_data_product_by_schema_name(store, "a") \in DOMAIN store
    /\ get_data_product_by_schema_name(store, "A") = NoId

\* schema_name, owner and creation_date of every row are set
RequiredFieldsSet(s) ==
    \A i \in DOMAIN s :
        /\ s[i].schema_name # NoneStr
        /\ s[i].owner # NoneStr
        /\ s[i].creation_date # NoDate

\* C25: in every reachable state every stored record has a schema_name, an
\* owner and a creation_date that are not None, also after an update whose
\* request sets one of them to None: the None counts as supplied, the
\* uniqueness check is skipped for it, and the store keeps the record as it
\* was.
C25_RequiredFieldsNeverNone ==
    /\ RequiredFieldsSet(store)
    /\ \A u \in UpdateOutcomes :
          /\ RequiredFieldsSet(u.out.store)
          /\ ("schema_name" \in u.req.fields_set /\ u.req.schema_name = NoneStr)
                => u.out.result # "ValueError"

\* an update that names no held schema_name has just been turned down by
\* the table
C25_Witness ==
    /\ last.op = "update"
    /\ last.result = "IntegrityError"
    /\ last.held = "none"
    /\ Cardinality(DOMAIN store) = 1
    /\ RequiredFieldsSet(store)

\* C26: the duplicate check of the service covers the empty schema_name:
\* while a record named '' is stored, a create with '' and a rename of
\* another record to '' are turned down with the 'already exists'
\* ValueError before they reach the write.
C26_EmptyNameCoveredByCheck ==
    (\E j \in DOMAIN store : store[j].schema_name = "") =>
        /\ get_data_product_by_schema_name(store, "") # NoId
        /\ \A c \in CreateOutcomes :
              c.req.schema_name = "" => c.out.result = "ValueError"
        /\ \A u \in OtherNameOutcomes :
              u.req.schema_name = "" => u.out.result = "ValueError"

\* no stored record holds the name
FreeIn(s, schema_name) == \A j \in DOMAIN s : s[j].schema_name # schema_name

\* a request that renames to schema_name and supplies nothing else
Rename(schema_name) ==
    [NoRequest EXCEPT !.schema_name = schema_name, !.fields_set = {"schema_name"}]

\* on table s, with t the clock: every create with the name succeeds, the
\* table then holds the rows of s and the new record, which every lookup
\* through its id returns; and every rename of a stored record to the name
\* succeeds
NameCanBeTaken(s, t, schema_name) ==
    /\ \A req \in DataProductCreate :
          req.schema_name = schema_name =>
            \A id \in FreeIdsUpTo(s, MaxId + 1) :
              LET out == create_data_product(s, req, id, t, t, t) IN
              /\ out.result = "ok"
              /\ out.id = id
              /\ out.id \notin DOMAIN s
              /\ get_data_product_by_id(out.store, out.id) = out.id
              /\ out.store[out.id] = NewDataProduct(req, out.id, t, t, t)
              /\ Rows(out.store) = Rows(s) \cup {out.store[out.id]}
    /\ \A j \in DOMAIN s :
          LET out == update_data_product(s, j, Rename(schema_name), t) IN
          /\ out.result = "ok"
          /\ out.store[j].schema_name = schema_name

\* C28: a delete removes the record and frees its schema_name, and so does
\* a rename away from it: from then on, while no record holds the name, a
\* create with it and a rename of another record to it succeed, and the id
\* of the new record, which may be the id of a removed record, returns the
\* new record and no removed one.
C28_DeleteFreesTheName ==
    /\ [][ (last'.op = "delete" /\ last'.id \in DOMAIN store)
              => /\ last'.id \notin DOMAIN store'
                 /\ store[last'.id] \notin Rows(store')
                 /\ FreeIn(store', store[last'.id].schema_name) ]_vars
    /\ [](\A n \in SchemaNames :
              FreeIn(store, n) => NameCanBeTaken(store, now, n))

\* a record has been deleted and a create has then succeeded: the new
\* record, named "a", is the only one stored
C28_Witness ==
    /\ last.op = "create"
    /\ last.result = "ok"
    /\ tally.deleted = 1
    /\ DOMAIN store = {last.id}
    /\ store[last.id].schema_name = "a"

(***************************************************************************)
(* Claims about the seeding (SeedSpec).                                    *)
(***************************************************************************)
\* the table holds the sample records and nothing else, one record per
\* sample
HoldsTheSamples(s) ==
    /\ get_data_products_count(s) = Len(SampleData)
    /\ \A k \in DOMAIN SampleData :
          \E i \in DOMAIN s :
              /\ s[i].schema_name = SampleData[k].schema_name
              /\ s[i].description = SampleData[k].description
              /\ s[i].owner = SampleData[k].owner

\* C24: seed_sample_data adds records only when the store is empty: on a
\* store that holds a record it leaves the store as it is, on an empty
\* store it creates the six sample records, of pairwise distinct
\* schema_names; a second call right after the first leaves the store of
\* the first.
C24_SeedOnlyWhenEmpty ==
    \A reads \in SeedReadings(now), keys \in SeedKeys(store) :
        LET once == seed_sample_data(store, reads, keys) IN
        /\ get_data_products_count(store) > 0 => once.store = store
        /\ get_data_products_count(store) = 0 =>
              /\ HoldsTheSamples(once.store)
              /\ Cardinality({ once.store[i].schema_name : i \in DOMAIN once.store }) = 6
        /\ \A again \in SeedReadings(reads[Len(reads)]),
              others \in SeedKeys(once.store) :
              seed_sample_data(once.store, again, others).store = once.store

\* the seeding has been called on the store it had seeded and has skipped
C24_Witness ==
    /\ last.op = "seed"
    /\ last.result = "skipped"
    /\ HoldsTheSamples(store)
    /\ tally.deleted = 0

(***************************************************************************)
(* Claims about the queries (QuerySpec).                                   *)
(***************************************************************************)
\* every stored record is in the list exactly once and the list holds
\* nothing else
EveryRecordOnce(rows) ==
    /\ Len(rows) = Cardinality(DOMAIN store)
    /\ \A k \in DOMAIN rows : rows[k] \in Rows(store)
    /\ \A i \in DOMAIN store :
          Cardinality({ k \in DOMAIN rows : rows[k] = store[i] }) = 1

\* of two records with distinct creation dates the later one comes first
NewestFirst(rows) ==
    \A j \in DOMAIN rows : \A k \in DOMAIN rows :
        (j < k /\ rows[j].creation_date # rows[k].creation_date)
            => rows[j].creation_date > rows[k].creation_date

\* C15: get_all_data_products returns every stored record exactly once,
\* ordered by creation_date descending: of two returned records with
\* distinct creation dates the later one comes first; an empty store
\* yields an empty list.
C15_ListIsEveryRecordNewestFirst ==
    /\ view.op = "list" => EveryRecordOnce(view.rows) /\ NewestFirst(view.rows)
    /\ get_all_data_products(store) # {}
    /\ DOMAIN store = {} => get_all_data_products(store) = { <<>> }

\* three records have been listed, the first later than the last and two of
\* them of the same creation date
C15_Witness ==
    /\ view.op = "list"
    /\ Len(view.rows) = 3
    /\ view.rows[1].creation_date > view.rows[3].creation_date
    /\ view.rows[2].creation_date = view.rows[3].creation_date

\* the term is empty or made of blanks only
Blank(term) == \A k \in DOMAIN Chars(term) : Chars(term)[k] = " "

\* two characters are the same letter, in whatever case
SameLetter(c, d) ==
    \/ c = d
    \/ {c, d} \in { {"a", "A"}, {"b", "B"} }

\* the term occurs in the name at some offset, letter by letter, the case
\* of the letters set aside
OccursIgnoringCase(schema_name, term) ==
    \E off \in 0..(Len(Chars(schema_name)) - Len(Chars(term))) :
        \A k \in 1..Len(Chars(term)) :
            SameLetter(Chars(schema_name)[off + k], Chars(term)[k])

\* C17: a search for a term that is not blank returns exactly the stored
\* records whose schema_name contains the term as a substring, both taken
\* without regard to case, each once; no match yields an empty list.
C17_SearchIsSubstringIgnoringCase ==
    (view.op = "search" /\ ~Blank(view.term)) =>
        LET matching == { r \in Rows(store) :
                            OccursIgnoringCase(r.schema_name, view.term) } IN
        /\ { view.rows[k] : k \in DOMAIN view.rows } = matching
        /\ Len(view.rows) = Cardinality(matching)

\* a search for "B" has returned two of three stored records
C17_Witness ==
    /\ view.op = "search"
    /\ view.term = "B"
    /\ Len(view.rows) = 2
    /\ Cardinality(DOMAIN store) = 3

\* C18: a search for an empty or blank term returns every stored record:
\* what it can return is what get_all_data_products can return, in every
\* reachable store.
C18_BlankSearchIsListAll ==
    /\ \A term \in SearchTerms :
          Blank(term) => search_data_products_by_schema_name(store, term)
                             = get_all_data_products(store)
    /\ (view.op = "search" /\ Blank(view.term))
          => EveryRecordOnce(view.rows) /\ NewestFirst(view.rows)

\* a search for " " has returned three records, not all of one creation
\* date
C18_Witness ==
    /\ view.op = "search"
    /\ view.term = " "
    /\ Len(view.rows) = 3
    /\ view.rows[1].creation_date > view.rows[3].creation_date

\* C19: the list a search returns is ordered by creation_date descending
\* as get_all_data_products orders: it is the subsequence of a list
\* get_all_data_products can return made of the matching records.
C19_SearchIsSubsequenceOfListAll ==
    view.op = "search" =>
        /\ NewestFirst(view.rows)
        /\ \E all \in get_all_data_products(store) :
              view.rows = SelectSeq(all,
                  LAMBDA r : \/ Blank(view.term)
                             \/ OccursIgnoringCase(r.schema_name, view.term))

\* a search for "B" has returned two of three stored records, the later
\* one first
C19_Witness ==
    /\ view.op = "search"
    /\ view.term = "B"
    /\ Cardinality(DOMAIN store) = 3
    /\ Len(view.rows) = 2
    /\ view.rows[1].creation_date > view.rows[2].creation_date

\* the names differ and are the same letter by letter, the case set aside
CaseVariants(x, y) ==
    /\ x # y
    /\ Len(Chars(x)) = Len(Chars(y))
    /\ \A k \in DOMAIN Chars(x) : SameLetter(Chars(x)[k], Chars(y)[k])

\* C20: a create whose schema_name differs from a stored one only in
\* letter case succeeds, and so does such a rename: the uniqueness checks
\* of create and update compare schema_name case-sensitively; a search
\* returns the records whose name is the term in any case.
C20_UniquenessIsCaseSensitive ==
    /\ \A req \in QueryCreateRequests :
          ( /\ \E j \in DOMAIN store : CaseVariants(store[j].schema_name, req.schema_name)
            /\ \A j \in DOMAIN store : store[j].schema_name # req.schema_name )
          => \A id \in FreeIdsUpTo(store, MaxRows + 1) :
                create_data_product(store, req, id, now, now, now).result = "ok"
    /\ \A id \in DOMAIN store : \A name \in QueryNames :
          ( /\ \E j \in DOMAIN store : CaseVariants(store[j].schema_name, name)
            /\ \A j \in DOMAIN store : store[j].schema_name # name )
          => update_data_product(store, id, Rename(name), now).result = "ok"
    /\ (view.op = "search" /\ ~Blank(view.term))
          => \A r \in Rows(store) :
                (r.schema_name = view.term \/ CaseVariants(r.schema_name, view.term))
                    => \E k \in DOMAIN view.rows : view.rows[k] = r

\* "a" and "A" are both stored and a search for "a" has returned both
C20_Witness ==
    /\ \E i \in DOMAIN store : store[i].schema_name = "a"
    /\ \E i \in DOMAIN store : store[i].schema_name = "A"
    /\ view.op = "search"
    /\ view.term = "a"
    /\ \E k \in DOMAIN view.rows : view.rows[k].schema_name = "a"
    /\ \E k \in DOMAIN view.rows : view.rows[k].schema_name = "A"

(***************************************************************************)
(* Claims about the service called by two callers at once (ConcSpec).      *)
(***************************************************************************)
\* the create calls of p and q raced: each had passed the existence check
\* for the same schema_name before either inserted, and both have returned
RacedCreates(p, q) ==
    /\ p # q
    /\ proc[p].pc = "idle" /\ proc[p].op = "create"
    /\ proc[q].pc = "idle" /\ proc[q].op = "create"
    /\ q \in proc[p].rivals /\ p \in proc[q].rivals
    /\ proc[p].req.schema_name = proc[q].req.schema_name

ExactlyOneCreated(p, q) ==
    /\ (proc[p].result = "ok") # (proc[q].result = "ok")
    /\ Cardinality({ j \in DOMAIN store :
                       store[j].schema_name = proc[p].req.schema_name }) = 1

\* C3: of two concurrent creates of one schema_name that both pass the
\* existence check before either inserts, exactly one succeeds and the
\* store ends with exactly one record of that name.
C3_RacingCreatesExactlyOneSucceeds ==
    \A p \in Procs : \A q \in Procs :
        RacedCreates(p, q) => ExactlyOneCreated(p, q)

\* the same for the schema names the existence check looks up
RacingCreatesOfNonEmptyName ==
    \A p \in Procs : \A q \in Procs :
        (RacedCreates(p, q) /\ proc[p].req.schema_name # "")
            => ExactlyOneCreated(p, q)

\* in state (pr, s) the update calls of p and q on one record ran at the
\* same time, each loading the record before the other had written, with
\* requests that supply disjoint fields, and both have succeeded; the
\* record was not deleted while either call ran (the id of a deleted record
\* can be the id of another record later)
RacedUpdates(pr, p, q) ==
    /\ p # q
    /\ ~pr[p].gone /\ ~pr[q].gone
    /\ pr[p].pc = "idle" /\ pr[p].op = "update" /\ pr[p].result = "ok"
    /\ pr[q].pc = "idle" /\ pr[q].op = "update" /\ pr[q].result = "ok"
    /\ q \in pr[p].rivals /\ p \in pr[q].rivals
    /\ pr[p].loaded.id = pr[q].loaded.id
    /\ pr[p].req.fields_set \cap pr[q].req.fields_set = {}

\* the stored record holds what the request of p supplied
HoldsSupplied(pr, s, p) ==
    /\ pr[p].loaded.id \in DOMAIN s
    /\ \A f \in pr[p].req.fields_set : s[pr[p].loaded.id][f] = pr[p].req[f]

\* C27: after two update calls on one record that ran at the same time
\* with requests supplying disjoint fields, the stored record holds the
\* values of both; and an update of a record that another call has deleted
\* between the load and the write does not bring the record back: the
\* commit and the refresh of an update add no row, and while no row is
\* stored under the id they leave the table as it is and the call ends
\* with StaleDataError or InvalidRequestError.
C27_NoLostUpdateNoRecreate ==
    [][ /\ \A p \in Procs : \A q \in Procs :
              RacedUpdates(proc', p, q)
                  => HoldsSupplied(proc', store', p) /\ HoldsSupplied(proc', store', q)
        /\ \A p \in Procs :
              ( /\ proc[p].pc \in {"update_commit", "update_refresh"}
                /\ proc'[p].pc # proc[p].pc )
              => /\ DOMAIN store' = DOMAIN store
                 /\ proc[p].loaded.id \notin DOMAIN store
                      => /\ store' = store
                         /\ proc'[p].pc = "idle"
                              => proc'[p].result \in {"StaleDataError",
                                                      "InvalidRequestError"} ]_vars

\* an update of the description and an update of the owner of one record
\* have raced and the record holds both values
C27_Witness ==
    \E p \in Procs : \E q \in Procs :
        /\ RacedUpdates(proc, p, q)
        /\ proc[p].req.fields_set = {"description"}
        /\ proc[q].req.fields_set = {"owner"}
        /\ store[proc[p].loaded.id].description = "d"
        /\ store[proc[p].loaded.id].owner = "p"

\* C4 as claimed: what a call has read (the existence check, the load by
\* id) is still what the store holds while the call has not written yet.
C4_ReadsHoldUntilWrite ==
    \A p \in Procs :
        /\ proc[p].pc \in {"create_construct", "create_insert"}
              => ~create_name_taken(store, proc[p].req)
        /\ proc[p].pc \in {"update_check", "update_stamp", "update_commit",
                            "delete_commit"}
              => /\ proc[p].loaded.id \in DOMAIN store
                 /\ store[proc[p].loaded.id] = proc[p].loaded
        /\ proc[p].pc = "update_commit"
              => ~update_name_taken(store, proc[p].loaded, proc[p].req)

\* the ids whose row differs between two tables
ChangedRows(s1, s2) ==
    { i \in DOMAIN s1 \cup DOMAIN s2 :
        \/ i \notin DOMAIN s1
        \/ i \notin DOMAIN s2
        \/ s1[i] # s2[i] }

\* C4 as amended: the reads, the write and the refresh of a call are
\* separate statements, and the write is one atomic commit: the store
\* changes only in the step in which a call commits, by exactly one row; a
\* call whose check or commit fails (ValueError, IntegrityError,
\* StaleDataError) and the refresh of a call leave the store as it is, so a
\* call that ends with InvalidRequestError has changed it at its commit.
C4_OneAtomicWrite ==
    [][ store' # store =>
          \E p \in Procs :
            /\ proc[p].pc \in {"create_insert", "update_commit", "delete_commit"}
            /\ \/ proc[p].pc = "create_insert" /\ proc'[p].pc = "create_refresh"
               \/ proc[p].pc = "update_commit" /\ proc'[p].pc = "update_refresh"
               \/ proc[p].pc = "delete_commit" /\ proc'[p].result = "True"
            /\ \A q \in Procs \ {p} : proc'[q].pc = proc[q].pc
            /\ Cardinality(ChangedRows(store, store')) = 1 ]_vars

\* a create has found at its insert the schema_name its check had found
\* free: the other caller's insert came in between
C4_Witness ==
    \E p \in Procs :
        /\ proc[p].pc = "idle"
        /\ proc[p].op = "create"
        /\ proc[p].result = "IntegrityError"
        /\ proc[p].req.schema_name = "a"
        /\ p \in UNION { proc[q].rivals : q \in Procs \ {p} }

====
